---- MODULE Spec2Model ----
(***************************************************************************)
(* Riesgo Pais Argentina: the multi-source price acquisition of            *)
(* riesgo_pais_app.py (adapters, fallback resolver, risk calculator and    *)
(* the st.cache_data memoisation around them), as a state machine.         *)
(*                                                                         *)
(* Units: time in seconds; prices in hundredths of a USD (3000 is 30.00);  *)
(* yields in hundredths of a percent (450 is 4.50 %).                      *)
(***************************************************************************)
EXTENDS Integers, Sequences, FiniteSets, TLC

(***************************************************************************)
(* Bounds of the exploration.                                              *)
(***************************************************************************)
\* The clock stops advancing once it has reached MaxTime seconds.
MaxTime == 120
\* The clock advances in steps of TickSeconds seconds.
TickSeconds == 30
\* The script is executed at most MaxRuns times.
MaxRuns == 2
\* the longer exploration of the two cache layers: horizon and executions
MaxAgeTime == 180
MaxAgeRuns == 3
\* prices given to the risk calculation alone: up to this many half-USD
MaxPriceSteps == 80

(***************************************************************************)
(* Python values.                                                          *)
(***************************************************************************)
\* Optional[float]: None, or a float (scaled integer).
None == [some |-> FALSE, v |-> 0]
Some(x) == [some |-> TRUE, v |-> x]

\* What evaluating a block of code ends with: a returned value or a raised
\* exception.
Ret(x) == [raised |-> FALSE, val |-> x]
Raise == [raised |-> TRUE, val |-> None]

Max(a, b) == IF a >= b THEN a ELSE b

(***************************************************************************)
(* Configuration and sidebar.                                              *)
(***************************************************************************)
SYMBOL == "AL30D.BA"

MANUAL == "Manual / URL personalizada"

Fuentes ==
  {"Auto (recomendado)", "Rava API", "Yahoo Finance", "Rava (HTML)",
   "InvertirOnline (HTML)", MANUAL}

\* What the user can type in the text input: nothing, or a symbol.
Entradas == {"", "AL30D"}

\* What the user can set the manual price to (min_value = 0.0).
ManualPrices == {0, 3000}

\* The sidebar after one execution of the script: the preference, the custom
\* location and the manual price (None when the widget is not drawn).
Sidebar ==
  {[fuente |-> f, entrada |-> "", precio_manual |-> None] :
      f \in Fuentes \ {MANUAL}}
  \cup {[fuente |-> MANUAL, entrada |-> e, precio_manual |-> None] :
      e \in Entradas \ {""}}
  \cup {[fuente |-> MANUAL, entrada |-> "", precio_manual |-> Some(p)] :
      p \in ManualPrices}

(***************************************************************************)
(* Text of a number, as a sequence of characters, and float().             *)
(***************************************************************************)
Digits == {"0", "1", "2", "3", "4", "5", "6", "7", "8", "9"}

DigitVal(ch) ==
  CASE ch = "0" -> 0 [] ch = "1" -> 1 [] ch = "2" -> 2 [] ch = "3" -> 3
    [] ch = "4" -> 4 [] ch = "5" -> 5 [] ch = "6" -> 6 [] ch = "7" -> 7
    [] ch = "8" -> 8 [] ch = "9" -> 9

\* str.replace(old, new) for a one-character old and a new of zero or one
\* character (new = "" deletes).
RECURSIVE Replace(_, _, _)
Replace(s, old, new) ==
  IF s = <<>> THEN <<>>
  ELSE LET rest == Replace(Tail(s), old, new)
       IN IF Head(s) = old
          THEN (IF new = "" THEN rest ELSE <<new>> \o rest)
          ELSE <<Head(s)>> \o rest

RECURSIVE Count(_, _)
Count(s, ch) ==
  IF s = <<>> THEN 0
  ELSE (IF Head(s) = ch THEN 1 ELSE 0) + Count(Tail(s), ch)

RECURSIVE IndexOf(_, _)
\* 1-based position of the first ch in s, Len(s) + 1 when there is none.
IndexOf(s, ch) ==
  IF s = <<>> THEN 1
  ELSE IF Head(s) = ch THEN 1 ELSE 1 + IndexOf(Tail(s), ch)

RECURSIVE DigitsValue(_)
DigitsValue(s) ==
  IF s = <<>> THEN 0
  ELSE 10 * DigitsValue(SubSeq(s, 1, Len(s) - 1)) + DigitVal(s[Len(s)])

\* float(text) for a text of digits, '.' and other characters: a decimal
\* literal has digits, at most one '.', and at least one digit; anything else
\* raises ValueError.  The value is scaled by 100, decimals beyond the second
\* are dropped.
PyFloat(s) ==
  LET dot == IndexOf(s, ".")
      ip == SubSeq(s, 1, dot - 1)
      fp == SubSeq(s, dot + 1, Len(s))
      ok == /\ \A i \in 1..Len(s) : s[i] \in Digits \cup {"."}
            /\ Count(s, ".") <= 1
            /\ Len(ip) + Len(fp) >= 1
      f2 == SubSeq(fp \o <<"0", "0">>, 1, 2)
  IN IF ok THEN Ret(Some(100 * DigitsValue(ip) + DigitsValue(f2))) ELSE Raise

(***************************************************************************)
(* What the upstream services can answer.                                  *)
(***************************************************************************)
\* Prices the upstream services can quote.
UpstreamPrices == {3000}

\* Closes of the US 10-year yield (^TNX).
UstYields == {450}

\* An HTTP exchange with the Rava API: requests.get raises (exc), or answers
\* with a status and a body; the body is not JSON ("invalid"), a JSON list
\* ("list") or a JSON object ("dict"), with or without the field "last",
\* whose value is a number (Some) or not one (None).
RavaApiBlank ==
  [exc |-> FALSE, status |-> 200, json |-> "dict", has_last |-> FALSE,
   last |-> None]

RavaApiResponses ==
  {[RavaApiBlank EXCEPT !.exc = TRUE],
   [RavaApiBlank EXCEPT !.status = 404],
   [RavaApiBlank EXCEPT !.json = "invalid"],
   [RavaApiBlank EXCEPT !.json = "list"],
   RavaApiBlank,
   [RavaApiBlank EXCEPT !.has_last = TRUE]}
  \cup {[RavaApiBlank EXCEPT !.has_last = TRUE, !.last = Some(p)] :
          p \in UpstreamPrices}

\* A price history of yfinance: the rows' closes, None for NaN.
Histories ==
  {<<>>, <<None>>}
  \cup {<<Some(p), None>> : p \in UpstreamPrices}
  \cup {<<None, Some(p)>> : p \in UpstreamPrices}

\* Yahoo: Ticker/history raises (exc), or the daily history h and, when it
\* is asked for, the 30-minute history h2.
YahooResponses ==
  {[exc |-> TRUE, h |-> <<>>, h2 |-> <<>>]}
  \cup {[exc |-> FALSE, h |-> a, h2 |-> <<>>] : a \in Histories}
  \cup {[exc |-> FALSE, h |-> <<>>, h2 |-> b] : b \in Histories}

\* The Rava profile page: requests.get raises, or a status and the text the
\* pattern "ultima" : ... captured (<<>> when the pattern is not found).
RavaHtmlTexts == {<<"3", "0", ",", "0", "0">>, <<",">>}

RavaHtmlResponses ==
  {[exc |-> TRUE, status |-> 0, ultima |-> <<>>],
   [exc |-> FALSE, status |-> 503, ultima |-> <<>>],
   [exc |-> FALSE, status |-> 200, ultima |-> <<>>]}
  \cup {[exc |-> FALSE, status |-> 200, ultima |-> t] : t \in RavaHtmlTexts}

\* One IOL listing page: requests.get raises, or a status and the text the
\* pattern captured after the symbol (<<>> when it is not found).  The
\* pattern's class of thousands separators, [\.\\s], also takes the letter s.
IolRaws ==
  {<<"3", "0", ",", "0", "0">>, <<"1", "s", "2", "3", "4", ",", "5", "6">>}

IolPages ==
  {[exc |-> TRUE, status |-> 0, raw |-> <<>>],
   [exc |-> FALSE, status |-> 404, raw |-> <<>>],
   [exc |-> FALSE, status |-> 200, raw |-> <<>>]}
  \cup {[exc |-> FALSE, status |-> 200, raw |-> t] : t \in IolRaws}

\* IOL: one page per candidate URL, in the order of urls.
IolResponses == {<<a, b>> : a \in IolPages, b \in IolPages}

\* The US yield: Ticker/history raises, or the daily history.
UstHistories == {<<>>, <<None>>} \cup {<<Some(y)>> : y \in UstYields}

UstResponses ==
  {[exc |-> TRUE, h |-> <<>>]}
  \cup {[exc |-> FALSE, h |-> a] : a \in UstHistories}

(***************************************************************************)
(* Source adapters.  X_try is the body of the try block: it returns, raises *)
(* or falls through (FallThrough); X is the whole function.                *)
(***************************************************************************)
FallThrough == [raised |-> FALSE, val |-> None, fell |-> TRUE]
Returned(x) == [raised |-> FALSE, val |-> x, fell |-> FALSE]
Raised == [raised |-> TRUE, val |-> None, fell |-> FALSE]

\* float(...) inside a try block.
TryFloat(text) ==
  LET f == PyFloat(text) IN IF f.raised THEN Raised ELSE Returned(f.val)

\* A function without the except clause: the exception leaves it.
ExceptPass_reraise(body) ==
  [res |-> IF body.raised THEN Raise
           ELSE IF body.fell THEN Ret(None) ELSE Ret(body.val),
   caught |-> FALSE]

\* try: <body> / except Exception: pass / return None.  caught tells that
\* an exception was swallowed.
ExceptPass(body) ==
  [res |-> IF body.raised \/ body.fell THEN Ret(None) ELSE Ret(body.val),
   caught |-> body.raised]

\* h["Close"].dropna().iloc[-1]: the last close that is not NaN; IndexError
\* when there is none.
LastClose(h) ==
  LET closes == SelectSeq(h, LAMBDA c : c.some)
  IN IF closes = <<>> THEN Raised ELSE Returned(closes[Len(closes)])

fetch_price_rava_api_try(r) ==
  IF r.exc THEN Raised
  ELSE IF r.status = 200
       THEN IF r.json = "invalid" THEN Raised
            ELSE IF r.json = "dict" /\ r.has_last
                 THEN (IF r.last.some THEN Returned(r.last) ELSE Raised)
                 ELSE FallThrough
       ELSE FallThrough

fetch_price_rava_api(r) == ExceptPass(fetch_price_rava_api_try(r))

fetch_price_yahoo_try(r) ==
  IF r.exc THEN Raised
  ELSE IF r.h # <<>> THEN LastClose(r.h)
  ELSE IF r.h2 # <<>> THEN LastClose(r.h2)
  ELSE FallThrough

fetch_price_yahoo(r) == ExceptPass(fetch_price_yahoo_try(r))

fetch_price_rava_html_try(r) ==
  IF r.exc THEN Raised
  ELSE IF r.status # 200 THEN Returned(None)
  ELSE IF r.ultima # <<>>
       THEN TryFloat(Replace(Replace(r.ultima, ".", ""), ",", "."))
       ELSE FallThrough

fetch_price_rava_html(r) == ExceptPass(fetch_price_rava_html_try(r))

RECURSIVE fetch_price_iol_html_try(_)
\* for url in urls: ... over the pages still to request.
fetch_price_iol_html_try(pages) ==
  IF pages = <<>> THEN FallThrough
  ELSE LET r == Head(pages)
       IN IF r.exc THEN Raised
          ELSE IF r.status # 200 THEN fetch_price_iol_html_try(Tail(pages))
          ELSE IF r.raw # <<>>
               THEN TryFloat(Replace(Replace(Replace(r.raw, ".", ""),
                                             " ", ""), ",", "."))
               ELSE fetch_price_iol_html_try(Tail(pages))

fetch_price_iol_html(pages) == ExceptPass(fetch_price_iol_html_try(pages))

fetch_ust_yield_try(r) ==
  IF r.exc THEN Raised
  ELSE IF r.h # <<>> THEN LastClose(r.h)
  ELSE FallThrough

fetch_ust_yield(r) == ExceptPass(fetch_ust_yield_try(r))

(***************************************************************************)
(* st.cache_data: one entry per (function, arguments), valid until its     *)
(* expiry instant.                                                         *)
(***************************************************************************)
TTL_RAVA_API == 90
TTL_YAHOO == 90
TTL_RAVA_HTML == 120
TTL_IOL_HTML == 120
TTL_UST == 90
TTL_RIESGO == 60

AdapterNames == {"rava_api", "yahoo", "rava_html", "iol_html"}

\* The cache key of a call: the function and its arguments.
AdapterKey(src, arg) == <<src, arg, "">>
UstKey == <<"ust", "", "">>
RiesgoKey(symbol, fuente_pref) == <<"riesgo", symbol, fuente_pref>>

AdapterKeys ==
  {AdapterKey(a, SYMBOL) : a \in AdapterNames}
  \cup {AdapterKey("rava_api", e) : e \in Entradas \ {""}}
RiesgoKeys == {RiesgoKey(SYMBOL, f) : f \in Fuentes}
Keys == AdapterKeys \cup {UstKey} \cup RiesgoKeys

KeyTTL(key) ==
  CASE key[1] = "rava_api" -> TTL_RAVA_API
    [] key[1] = "yahoo" -> TTL_YAHOO
    [] key[1] = "rava_html" -> TTL_RAVA_HTML
    [] key[1] = "iol_html" -> TTL_IOL_HTML
    [] key[1] = "ust" -> TTL_UST
    [] key[1] = "riesgo" -> TTL_RIESGO

NoEntry == [present |-> FALSE, val |-> None, exp |-> 0]

\* Variant: an entry answers however old it is.
CacheLive_forever(c, key, t) == c[key].present

\* An entry answers a call made at t while t is before its expiry.
CacheLive(c, key, t) == c[key].present /\ t < c[key].exp

CacheStore(c, key, x, t) ==
  [c EXCEPT ![key] = [present |-> TRUE, val |-> x, exp |-> t + KeyTTL(key)]]

\* A call at t of a cached function whose body ends in one of prods: a live
\* entry answers without running the body; otherwise the body runs and what
\* it returns is stored (an exception stores nothing).
CachedCall(c, t, key, prods) ==
  IF CacheLive(c, key, t)
  THEN {[res |-> Ret(c[key].val), cache |-> c, produced |-> FALSE,
         caught |-> FALSE]}
  ELSE {[res |-> p.res,
         cache |-> IF p.res.raised THEN c
                   ELSE CacheStore(c, key, p.res.val, t),
         produced |-> TRUE, caught |-> p.caught] : p \in prods}

\* How the body of each adapter can end, over what upstream can answer.
AdapterOutcomes(src) ==
  CASE src = "rava_api" ->
         {fetch_price_rava_api(r) : r \in RavaApiResponses}
    [] src = "yahoo" -> {fetch_price_yahoo(r) : r \in YahooResponses}
    [] src = "rava_html" ->
         {fetch_price_rava_html(r) : r \in RavaHtmlResponses}
    [] src = "iol_html" ->
         {fetch_price_iol_html(r) : r \in IolResponses}

UstOutcomes == {fetch_ust_yield(r) : r \in UstResponses}

(***************************************************************************)
(* get_bono_price.                                                         *)
(***************************************************************************)
DefaultOrder == <<"rava_api", "yahoo", "rava_html", "iol_html">>

\* An order table whose last row leaves one adapter out.
order_map_omits(fuente_pref) ==
  CASE fuente_pref = "Yahoo Finance" ->
         <<"yahoo", "rava_api", "rava_html", "iol_html">>
    [] fuente_pref = "Rava (HTML)" ->
         <<"rava_html", "rava_api", "yahoo", "iol_html">>
    [] fuente_pref = "InvertirOnline (HTML)" ->
         <<"iol_html", "rava_api", "yahoo">>
    [] OTHER -> DefaultOrder

order_map(fuente_pref) ==
  CASE fuente_pref = "Auto (recomendado)" ->
         <<"rava_api", "yahoo", "rava_html", "iol_html">>
    [] fuente_pref = "Rava API" ->
         <<"rava_api", "yahoo", "rava_html", "iol_html">>
    [] fuente_pref = "Yahoo Finance" ->
         <<"yahoo", "rava_api", "rava_html", "iol_html">>
    [] fuente_pref = "Rava (HTML)" ->
         <<"rava_html", "rava_api", "yahoo", "iol_html">>
    [] fuente_pref = "InvertirOnline (HTML)" ->
         <<"iol_html", "rava_api", "yahoo", "rava_html">>
    [] OTHER -> DefaultOrder

\* The source name returned with a price of each adapter.
SourceName(src) ==
  CASE src = "rava_api" -> "Rava API"
    [] src = "yahoo" -> "Yahoo"
    [] src = "rava_html" -> "Rava (HTML)"
    [] src = "iol_html" -> "IOL (HTML)"

\* The record of an execution so far: the cache, the keys called, the keys
\* whose body ran, whether a body swallowed an exception, and the adapters
\* get_bono_price invoked, in order.
Trace0(c) ==
  [cache |-> c, calls |-> {}, produced |-> {}, caught |-> FALSE,
   attempted |-> <<>>]

Noted(acc, key, o) ==
  [cache |-> o.cache,
   calls |-> acc.calls \cup {key},
   produced |-> acc.produced \cup (IF o.produced THEN {key} ELSE {}),
   caught |-> acc.caught \/ o.caught,
   attempted |-> acc.attempted]

Attempted(acc, src) == [acc EXCEPT !.attempted = Append(@, src)]

BonoReturn(acc, p, fuente_usada) ==
  [raised |-> FALSE, price |-> p, source |-> fuente_usada, trace |-> acc]

BonoRaise(acc) ==
  [raised |-> TRUE, price |-> None, source |-> "", trace |-> acc]

\* A loop that returns whatever the first adapter gave it.
LoopReturns_any(p) == TRUE

\* What the loop does with the result p of the adapter it has just called:
\* TRUE to return it (p is not None).
LoopReturns(p) == p.some

\* A loop that gives up before the last adapter of the order.
Exhausted_early(order, i) == i >= Len(order)

\* The loop is over once every src of order has been taken.
Exhausted(order, i) == i > Len(order)

RECURSIVE get_bono_price_loop(_, _, _, _, _)
\* for src in order, from the i-th on; return None, "Ninguna" after it.
get_bono_price_loop(order, i, symbol, t, acc) ==
  IF Exhausted(order, i) THEN {BonoReturn(acc, None, "Ninguna")}
  ELSE LET src == order[i]
           key == AdapterKey(src, symbol)
       IN UNION {LET acc2 == Attempted(Noted(acc, key, o), src)
                 IN IF o.res.raised THEN {BonoRaise(acc2)}
                    ELSE IF LoopReturns(o.res.val)
                         THEN {BonoReturn(acc2, o.res.val, SourceName(src))}
                         ELSE get_bono_price_loop(order, i + 1, symbol, t,
                                                  acc2)
                 : o \in CachedCall(acc.cache, t, key, AdapterOutcomes(src))}

\* The branch of 'Manual / URL personalizada'; side holds the globals
\* entrada_personalizada and precio_manual.
get_bono_price_manual(t, side, acc) ==
  IF side.entrada # ""
  THEN LET key == AdapterKey("rava_api", side.entrada)
       IN {LET acc2 == Attempted(Noted(acc, key, o), "rava_api")
           IN IF o.res.raised THEN BonoRaise(acc2)
              ELSE IF o.res.val.some
                   THEN BonoReturn(acc2, o.res.val, "Rava API (custom)")
                   ELSE BonoReturn(acc2, side.precio_manual, "Manual")
           : o \in CachedCall(acc.cache, t, key, AdapterOutcomes("rava_api"))}
  ELSE {BonoReturn(acc, side.precio_manual, "Manual")}

\* A resolver whose test of the manual preference never matches.
get_bono_price_no_manual(symbol, fuente_pref, t, side, acc) ==
  get_bono_price_loop(order_map(fuente_pref), 1, symbol, t, acc)

get_bono_price(symbol, fuente_pref, t, side, acc) ==
  IF fuente_pref = MANUAL
  THEN get_bono_price_manual(t, side, acc)
  ELSE get_bono_price_loop(order_map(fuente_pref), 1, symbol, t, acc)

(***************************************************************************)
(* obtener_riesgo_actual.                                                  *)
(***************************************************************************)
\* a / b of two floats of the same scale, for b # 0, rounded towards zero.
FloatDiv(a, b) ==
  IF b > 0 THEN (IF a >= 0 THEN a \div b ELSE -((-a) \div b))
  ELSE (IF a >= 0 THEN -(a \div (-b)) ELSE (-a) \div (-b))

\* Variant: the factor 10.0 left out.
InversePrice_per_hundred(precio_arg) ==
  IF precio_arg = 0 THEN Raise ELSE Ret(FloatDiv(1000000, precio_arg))

\* (100.0 / float(precio_arg)) * 10.0 in hundredths of a percent, for a price
\* in hundredths of a USD; ZeroDivisionError for a price of 0.
InversePrice(precio_arg) ==
  IF precio_arg = 0 THEN Raise ELSE Ret(FloatDiv(10000000, precio_arg))

\* The tuple obtener_riesgo_actual returns.
Reading(riesgo_pb, rendimiento_arg, rend_usa, precio_arg, fuente_usada) ==
  [riesgo_pb |-> riesgo_pb, rendimiento_arg |-> rendimiento_arg,
   rend_usa |-> rend_usa, precio_arg |-> precio_arg,
   fuente_usada |-> fuente_usada]

NoReading == Reading(None, None, None, None, "")

\* Lines 200-205: the result for a price and a US yield.
compute_riesgo(precio_arg, fuente_usada, rend_usa) ==
  IF ~precio_arg.some \/ ~rend_usa.some
  THEN Ret(Reading(None, None, rend_usa, precio_arg, fuente_usada))
  ELSE LET q == InversePrice(precio_arg.v)
           rendimiento_arg == Max(0, q.val)
           riesgo_pb == (rendimiento_arg - rend_usa.v) * 100
       IN IF q.raised THEN [raised |-> TRUE, val |-> NoReading]
          ELSE Ret(Reading(Some(riesgo_pb), Some(rendimiento_arg), rend_usa,
                           precio_arg, fuente_usada))

\* The body of obtener_riesgo_actual: how it can end, with the price and
\* source get_bono_price gave it.
obtener_riesgo_actual_body(symbol, fuente_pref, t, side, acc) ==
  UNION {IF g.raised
         THEN {[res |-> [raised |-> TRUE, val |-> NoReading], bono |-> g,
                trace |-> g.trace]}
         ELSE {[res |-> IF u.res.raised
                        THEN [raised |-> TRUE, val |-> NoReading]
                        ELSE compute_riesgo(g.price, g.source, u.res.val),
                bono |-> g,
                trace |-> Noted(g.trace, UstKey, u)]
               : u \in CachedCall(g.trace.cache, t, UstKey, UstOutcomes)}
         : g \in get_bono_price(symbol, fuente_pref, t, side, acc)}

NoBono == [raised |-> FALSE, price |-> None, source |-> "", caught |-> FALSE]

\* obtener_riesgo_actual behind st.cache_data(ttl=60): the key is
\* (symbol, fuente_pref).
obtener_riesgo_actual(symbol, fuente_pref, t, side, c) ==
  LET key == RiesgoKey(symbol, fuente_pref)
      acc == [Trace0(c) EXCEPT !.calls = {key}]
  IN IF CacheLive(c, key, t)
     THEN {[res |-> Ret(c[key].val), hit |-> TRUE, bono |-> NoBono,
            trace |-> acc]}
     ELSE {[res |-> b.res, hit |-> FALSE,
            bono |-> [raised |-> b.bono.raised, price |-> b.bono.price,
                      source |-> b.bono.source,
                      caught |-> b.bono.trace.caught],
            trace |-> [b.trace EXCEPT
                         !.produced = @ \cup {key},
                         !.cache = IF b.res.raised THEN @
                                   ELSE CacheStore(@, key, b.res.val, t)]]
           : b \in obtener_riesgo_actual_body(symbol, fuente_pref, t, side,
                                              acc)}

(***************************************************************************)
(* The state machine.                                                      *)
(***************************************************************************)
VARIABLES
  now,          \* the clock, in seconds
  cache,        \* st.cache_data's entries, by key
  last,         \* the latest execution of the script: its inputs and outcome
  ended,        \* history: how the latest call of each key ended
  produced_at,  \* history: when the body of each key last ran (-1: never)
  runs,         \* history: how many times the script has been executed
  basis,        \* history: per aggregate entry, what its value was made from
  input,        \* a function taken alone: what it is applied to
  output        \* a function taken alone: what it gave (NotApplied before)

vars == <<now, cache, last, ended, produced_at, runs, basis, input, output>>

NoInput == [fn |-> "", text |-> <<>>, pages |-> <<>>, price |-> 0, usa |-> 0]
NotApplied == [done |-> FALSE, by |-> "", res |-> Ret(None)]

NoRun ==
  [ran |-> FALSE, t |-> 0,
   side |-> [fuente |-> "", entrada |-> "", precio_manual |-> None],
   hit |-> FALSE, raised |-> FALSE, result |-> NoReading, bono |-> NoBono,
   calls |-> {}, produced |-> {}, attempted |-> <<>>]

\* The adapter entry whose value get_bono_price returned as fuente_usada
\* ({} for the manual price and for 'Ninguna').
AnsweringKeys(side, fuente_usada) ==
  {AdapterKey(src, SYMBOL) : src \in {a \in AdapterNames :
                                        SourceName(a) = fuente_usada}}
  \cup (IF fuente_usada = "Rava API (custom)"
        THEN {AdapterKey("rava_api", side.entrada)} ELSE {})

\* What an aggregate entry was made from: the adapter entry that gave the
\* price, and the instants the bodies of that adapter and of fetch_ust_yield
\* ran (-1: none).
NoBasis == [price_keys |-> {}, price_at |-> -1, usa_at |-> -1]

BasisOf(side, o, at) ==
  LET ks == AnsweringKeys(side, o.res.val.fuente_usada)
  IN [price_keys |-> ks,
      price_at |-> IF ks = {} THEN -1 ELSE at[CHOOSE k \in ks : TRUE],
      usa_at |-> at[UstKey]]

\* Nothing has run and nothing is cached.
Fresh ==
  /\ now = 0
  /\ cache = [k \in Keys |-> NoEntry]
  /\ last = NoRun
  /\ ended = [k \in Keys |-> "never"]
  /\ produced_at = [k \in Keys |-> -1]
  /\ runs = 0
  /\ basis = [k \in RiesgoKeys |-> NoBasis]

Init ==
  /\ Fresh
  /\ input = NoInput
  /\ output = NotApplied

\* How the call of key k ended in an execution that ended in o.
EndOf(k, o) ==
  IF k[1] = "riesgo"
  THEN (IF o.res.raised THEN "raise"
        ELSE IF o.res.val.riesgo_pb.some THEN "value" ELSE "absent")
  ELSE (IF ~o.trace.cache[k].present THEN "raise"
        ELSE IF o.trace.cache[k].val.some THEN "value" ELSE "absent")

\* One execution of the script (a page load or refresh) with the sidebar as
\* side: line 230 calls obtener_riesgo_actual(SYMBOL, fuente).
Execute(side) ==
  /\ runs' = runs + 1
  /\ \E o \in obtener_riesgo_actual(SYMBOL, side.fuente, now, side, cache) :
      /\ cache' = o.trace.cache
      /\ last' = [ran |-> TRUE, t |-> now, side |-> side, hit |-> o.hit,
                  raised |-> o.res.raised, result |-> o.res.val,
                  bono |-> o.bono, calls |-> o.trace.calls,
                  produced |-> o.trace.produced,
                  attempted |-> o.trace.attempted]
      /\ ended' = [k \in Keys |->
                     IF k \in o.trace.calls THEN EndOf(k, o) ELSE ended[k]]
      /\ produced_at' = [k \in Keys |->
                           IF k \in o.trace.produced THEN now
                           ELSE produced_at[k]]
      /\ basis' = IF o.hit \/ o.res.raised THEN basis
                  ELSE [basis EXCEPT ![RiesgoKey(SYMBOL, side.fuente)] =
                          BasisOf(side, o, produced_at')]
      /\ UNCHANGED <<now, input, output>>

Rerun(side) == runs < MaxRuns /\ Execute(side)

\* Time passes.
Elapse(horizon) ==
  /\ now + TickSeconds <= horizon
  /\ now' = now + TickSeconds
  /\ UNCHANGED <<cache, last, ended, produced_at, runs, basis, input, output>>

Tick == Elapse(MaxTime)

Next == (\E side \in Sidebar : Rerun(side)) \/ Tick

Spec == Init /\ [][Next]_vars

(***************************************************************************)
(* Properties.                                                             *)
(***************************************************************************)
\* The latest execution ran the body of obtener_riesgo_actual (no cache hit
\* of the aggregate), so get_bono_price was called.
Resolved == last.ran /\ ~last.hit

NonManual == Fuentes \ {MANUAL}

\* What the adapter src returned to the latest execution that called it with
\* arg: the entry its call hit or stored.
ReturnedBy(src, arg) == cache[AdapterKey(src, arg)].val

\* s is a prefix of q.
IsPrefix(s, q) == Len(s) <= Len(q) /\ \A i \in 1..Len(s) : s[i] = q[i]

\* C1: under a non-manual preference get_bono_price attempts the adapters in
\* the order the preference maps to, one after the other, up to and including
\* the first one that returns a value, attempts none after it, and returns
\* that value with that adapter's source name.
C1_OrderedShortCircuit ==
  (Resolved /\ last.side.fuente \in NonManual) =>
    LET order == order_map(last.side.fuente)
        att == last.attempted
        n == Len(att)
    IN /\ n >= 1
       /\ IsPrefix(att, order)
       /\ \A i \in 1..(n - 1) : ~ReturnedBy(att[i], SYMBOL).some
       /\ IF ReturnedBy(att[n], SYMBOL).some
          THEN /\ last.bono.price = ReturnedBy(att[n], SYMBOL)
               /\ last.bono.source = SourceName(att[n])
          ELSE n = Len(order)

\* C1 witness: the first two adapters of the IOL order were absent and the
\* third, Yahoo, answered.
C1_Witness ==
  /\ Resolved
  /\ last.side.fuente = "InvertirOnline (HTML)"
  /\ last.attempted = <<"iol_html", "rava_api", "yahoo">>
  /\ last.bono.price = Some(3000)
  /\ last.bono.source = "Yahoo"

\* C2: the pair get_bono_price returns is a present price with the name of
\* the source that produced it, or an absent price with 'Ninguna'; an absent
\* price never comes with a named source.
C2_AbsentOnlyWithNinguna ==
  Resolved =>
    \/ last.bono.price.some /\ last.bono.source # "Ninguna"
    \/ ~last.bono.price.some /\ last.bono.source = "Ninguna"

\* The step is an execution of the script.
IsRerun == runs' = runs + 1

\* C3: a call that ended absent is not cached: the next call of the same key
\* runs the body of the function again, whenever it comes.
C3_FailureNotCached ==
  [][\A k \in Keys :
       (IsRerun /\ k \in last'.calls /\ ended[k] = "absent")
         => k \in last'.produced]_vars

\* C4: obtener_riesgo_actual never ends in an exception, whatever the price:
\* the script always gets a reading or an unavailable result.
C4_NoDivisionFault == last.ran => ~last.raised

\* C5: a call of a cached function made less than the TTL after the body
\* last ran for its key does not run the body and returns the stored value
\* unchanged; a call made once the TTL has passed runs the body again and
\* stores what it returns with a new expiry.
C5_CacheWithinTTL ==
  [][\A k \in Keys :
       (IsRerun /\ k \in last'.calls /\ produced_at[k] >= 0) =>
         IF now - produced_at[k] < KeyTTL(k)
         THEN /\ k \notin last'.produced
              /\ cache'[k] = cache[k]
              /\ k[1] = "riesgo" =>
                   ~last'.raised /\ last'.result = cache[k].val
         ELSE /\ k \in last'.produced
              /\ cache'[k].present
              /\ cache'[k].exp = now + KeyTTL(k)]_vars

\* C6: obtener_riesgo_actual calls the yield adapter whatever get_bono_price
\* gave, and returns a spread and an approximate yield exactly when both the
\* price and the US yield are present, neither of them otherwise.
C6_ReadingIffBothPresent ==
  Resolved =>
    /\ UstKey \in last.calls
    /\ last.result.riesgo_pb.some <=> last.result.rendimiento_arg.some
    /\ last.result.riesgo_pb.some <=>
         (last.bono.price.some /\ cache[UstKey].val.some)

\* The answers of upstream that are faults: a transport error or timeout, a
\* status other than 200, a body that is not the expected JSON, a missing
\* field, a pattern that is not found, a text that is no number.
RavaApiFaults ==
  {r \in RavaApiResponses :
     r.exc \/ r.status # 200 \/ r.json # "dict" \/ ~r.has_last \/ ~r.last.some}

YahooFaults ==
  {r \in YahooResponses :
     r.exc \/ \A i \in 1..Len(r.h \o r.h2) : ~(r.h \o r.h2)[i].some}

RavaHtmlFaults ==
  {r \in RavaHtmlResponses :
     \/ r.exc
     \/ r.status # 200
     \/ \A i \in 1..Len(r.ultima) : r.ultima[i] \notin Digits}

IolFaults ==
  {r \in IolResponses :
     \A i \in 1..Len(r) :
       \/ r[i].exc
       \/ r[i].status # 200
       \/ r[i].raw = <<>>
       \/ \E j \in 1..Len(r[i].raw) :
            r[i].raw[j] \notin Digits \cup {".", ",", " "}}

UstFaults ==
  {r \in UstResponses : r.exc \/ \A i \in 1..Len(r.h) : ~r.h[i].some}

\* Every fault of every adapter ends in None, and no adapter raises.
FaultsBecomeNone ==
  /\ \A r \in RavaApiFaults : fetch_price_rava_api(r).res = Ret(None)
  /\ \A r \in YahooFaults : fetch_price_yahoo(r).res = Ret(None)
  /\ \A r \in RavaHtmlFaults : fetch_price_rava_html(r).res = Ret(None)
  /\ \A r \in IolFaults : fetch_price_iol_html(r).res = Ret(None)
  /\ \A r \in UstFaults : fetch_ust_yield(r).res = Ret(None)
  /\ \A src \in AdapterNames : \A o \in AdapterOutcomes(src) : ~o.res.raised
  /\ \A o \in UstOutcomes : ~o.res.raised

\* C7: every adapter turns every fault into None and lets no exception out;
\* so get_bono_price never ends in an exception, and after an adapter has
\* swallowed one it still goes on to the remaining adapters of the order,
\* ending with a price or with every adapter attempted.
C7_AdaptersSwallowFaults ==
  /\ FaultsBecomeNone
  /\ Resolved =>
       /\ ~last.bono.raised
       /\ (last.side.fuente \in NonManual /\ ~last.bono.price.some) =>
            /\ Len(last.attempted) = Cardinality(AdapterNames)
            /\ last.bono.source = "Ninguna"

\* C7 witness: an adapter swallowed an exception, the loop went on, and a
\* later adapter of the order gave the price.
C7_Witness ==
  /\ Resolved
  /\ last.side.fuente = "Rava API"
  /\ last.bono.caught
  /\ Len(last.attempted) = 3
  /\ last.bono.price.some
  /\ last.bono.source = "Rava (HTML)"

\* The adapter each preference names; Auto and an unknown preference follow
\* the recommended order, which starts with the Rava API.
Preferred(fuente_pref) ==
  CASE fuente_pref = "Yahoo Finance" -> "yahoo"
    [] fuente_pref = "Rava (HTML)" -> "rava_html"
    [] fuente_pref = "InvertirOnline (HTML)" -> "iol_html"
    [] OTHER -> "rava_api"

\* An adapter that would answer a call made now: its entry is live and holds
\* a price.
CanAnswer(src) ==
  CacheLive(cache, AdapterKey(src, SYMBOL), now) /\ ReturnedBy(src, SYMBOL).some

\* Each order holds every adapter exactly once, the preferred one first.
OrdersAreTotal ==
  \A f \in NonManual \cup {"?"} :
    LET order == order_map(f)
    IN /\ Len(order) = Cardinality(AdapterNames)
       /\ {order[i] : i \in 1..Len(order)} = AdapterNames
       /\ order[1] = Preferred(f)

\* C8: every non-manual preference, and the default of an unknown one, maps
\* to an order that holds each of the four adapters exactly once, the
\* preferred one first; so get_bono_price returns a price whenever some
\* adapter answers.
C8_TotalOrder ==
  /\ OrdersAreTotal
  /\ (Resolved /\ last.side.fuente \in NonManual
        /\ \E src \in AdapterNames : CanAnswer(src))
       => last.bono.price.some

\* C8 witness: under the Rava (HTML) preference the preferred adapter and the
\* next two were absent and the last adapter of the order gave the price.
C8_Witness ==
  /\ Resolved
  /\ last.side.fuente = "Rava (HTML)"
  /\ last.attempted = <<"rava_html", "rava_api", "yahoo", "iol_html">>
  /\ ~ReturnedBy("rava_html", SYMBOL).some
  /\ last.bono.price.some
  /\ last.bono.source = "IOL (HTML)"

\* The adapter keys the latest execution called.
AdapterCalls == last.calls \cap AdapterKeys

\* C9: under the manual preference get_bono_price walks no order: with a
\* manual price and no custom location it returns that price as 'Manual' and
\* calls no adapter; with a custom location it calls the Rava API with that
\* location and no other adapter.
C9_ManualBypassesChain ==
  (Resolved /\ last.side.fuente = MANUAL) =>
    IF last.side.entrada = ""
    THEN /\ AdapterCalls = {}
         /\ last.attempted = <<>>
         /\ last.bono.price = last.side.precio_manual
         /\ last.bono.price.some
         /\ last.bono.source = "Manual"
    ELSE /\ AdapterCalls = {AdapterKey("rava_api", last.side.entrada)}
         /\ last.attempted = <<"rava_api">>

\* C9 witness: a manual price of 30.00 came back as the price of a reading,
\* with no adapter called.
C9_Witness ==
  /\ Resolved
  /\ last.side.fuente = MANUAL
  /\ last.side.entrada = ""
  /\ last.result.precio_arg = Some(3000)
  /\ last.result.fuente_usada = "Manual"
  /\ last.result.riesgo_pb.some
  /\ AdapterCalls = {}

\* C10: under a non-manual preference, when no adapter that was attempted
\* returned a price, get_bono_price returns (None, 'Ninguna') and has
\* attempted each of the four adapters exactly once.
C10_AllAbsentNinguna ==
  (Resolved /\ last.side.fuente \in NonManual
     /\ \A i \in 1..Len(last.attempted) :
          ~ReturnedBy(last.attempted[i], SYMBOL).some)
    => /\ last.bono.price = None
       /\ last.bono.source = "Ninguna"
       /\ Len(last.attempted) = Cardinality(AdapterNames)
       /\ \A src \in AdapterNames :
            Cardinality({i \in 1..Len(last.attempted) :
                           last.attempted[i] = src}) = 1

\* C10 witness: every adapter was attempted, none gave a price, and the
\* result is unavailable with source 'Ninguna'.
C10_Witness ==
  /\ Resolved
  /\ last.side.fuente = "Yahoo Finance"
  /\ Len(last.attempted) = 4
  /\ last.bono.price = None
  /\ last.bono.source = "Ninguna"
  /\ last.result.fuente_usada = "Ninguna"
  /\ ~last.result.riesgo_pb.some

(***************************************************************************)
(* The functions taken alone: an input is drawn, then the function is      *)
(* applied to it once.                                                     *)
(***************************************************************************)
Heads == {<<"1">>, <<"3", "4">>}
Groups == {<<"2", "3", "4">>}
Fracs == {<<"5">>, <<"5", "5">>, <<"5", "6">>}

\* Numbers written with ',' before the decimals, with or without a group of
\* thousands behind one of the separators seps.
CommaTexts(seps) ==
  {h \o <<",">> \o f : h \in Heads, f \in Fracs}
  \cup {h \o sep \o g \o <<",">> \o f :
          h \in Heads, sep \in seps, g \in Groups, f \in Fracs}

\* Numbers written with '.' before the decimals, and whole numbers.
DotTexts ==
  {h \o <<".">> \o f : h \in Heads, f \in Fracs}
  \cup Heads \cup {h \o g : h \in Heads, g \in Groups}

\* Line 111: ([\d\.,]+) takes any run of digits, '.' and ','.
UltimaTexts == CommaTexts({<<>>, <<".">>}) \cup DotTexts \cup RavaHtmlTexts

\* Line 131: 1-3 digits, groups of three digits behind an optional separator
\* of the class [\.\\s], then ',' and decimals.
IolTexts == CommaTexts({<<>>, <<".">>, <<"s">>}) \cup IolRaws

IolTextPages ==
  {[exc |-> FALSE, status |-> 200, raw |-> t] : t \in IolTexts}

FunctionInput(fn, text, pages, price, usa) ==
  [fn |-> fn, text |-> text, pages |-> pages, price |-> price, usa |-> usa]

UltimaInputs == {FunctionInput("ultima", t, <<>>, 0, 0) : t \in UltimaTexts}

IolInputs ==
  {FunctionInput("iol", <<>>, <<a, b>>, 0, 0) :
     a \in IolPages \cup IolTextPages, b \in IolPages}

\* Prices (negative, zero and positive) and US yields for lines 200-205.
RiesgoPrices == {50 * k : k \in (0 - MaxPriceSteps)..MaxPriceSteps}
RiesgoYields == {0, 400, 450, 4000}

RiesgoInputs ==
  {FunctionInput("riesgo", <<>>, <<>>, p, u) :
     p \in RiesgoPrices, u \in RiesgoYields}

FunctionInputs == UltimaInputs \cup IolInputs \cup RiesgoInputs

InitFunctions ==
  /\ Fresh
  /\ input \in FunctionInputs
  /\ output = NotApplied

Applied(by, res) == [done |-> TRUE, by |-> by, res |-> res]

\* fetch_price_rava_html on a page whose "ultima" field holds input.text.
ApplyRavaHtml ==
  /\ input.fn = "ultima"
  /\ ~output.done
  /\ output' = Applied("rava_html",
                fetch_price_rava_html([exc |-> FALSE, status |-> 200,
                                       ultima |-> input.text]).res)
  /\ UNCHANGED <<now, cache, last, ended, produced_at, runs, basis, input>>

\* fetch_price_iol_html on the pages of its two URLs.
ApplyIolHtml ==
  /\ input.fn = "iol"
  /\ ~output.done
  /\ output' = Applied("iol_html", fetch_price_iol_html(input.pages).res)
  /\ UNCHANGED <<now, cache, last, ended, produced_at, runs, basis, input>>

\* Lines 200-205 on a price and a US yield that are both present.
ApplyRiesgo ==
  /\ input.fn = "riesgo"
  /\ ~output.done
  /\ output' = Applied("riesgo", compute_riesgo(Some(input.price), "Manual",
                                                Some(input.usa)))
  /\ UNCHANGED <<now, cache, last, ended, produced_at, runs, basis, input>>

NextFunctions == ApplyRavaHtml \/ ApplyIolHtml \/ ApplyRiesgo

SpecFunctions == InitFunctions /\ [][NextFunctions]_vars

\* The text an adapter took from the page it parsed (<<>>: none).
ScrapedText ==
  IF input.fn = "ultima" THEN input.text
  ELSE IF input.fn = "iol" /\ ~input.pages[1].exc
          /\ input.pages[1].status = 200
       THEN input.pages[1].raw
       ELSE <<>>

\* The number a text stands for, the convention being read off its shape:
\* with a ',' the '.' group thousands and ',' starts the decimals; without
\* one the text is a plain decimal.
ValueByShape(text) ==
  IF Count(text, ",") > 0
  THEN PyFloat(Replace(Replace(text, ".", ""), ",", "."))
  ELSE PyFloat(text)

\* C11: the number a scrape adapter returns for the text it extracted is the
\* value of that text in its own convention: "1.234,56" gives 1234.56 and the
\* plain decimal "34.55" gives 34.55.
C11_BothConventions ==
  (output.done /\ ScrapedText # <<>> /\ ~ValueByShape(ScrapedText).raised)
    => output.res = ValueByShape(ScrapedText)

\* The risk calculation returned a reading for input.price and input.usa.
RiesgoReading ==
  /\ output.done
  /\ input.fn = "riesgo"
  /\ ~output.res.raised
  /\ output.res.val.riesgo_pb.some

\* C12: in every reading the approximate yield is not negative and the spread
\* is (yield - US yield) * 100; for a positive price p the yield is
\* (100 / p) * 10, here the whole number of hundredths of a percent in
\* 10 000 000 / p with p in hundredths of a USD.
C12_YieldAndSpread ==
  RiesgoReading
    => LET r == output.res.val.rendimiento_arg.v
       IN /\ output.res.val.rendimiento_arg.some
          /\ r >= 0
          /\ output.res.val.riesgo_pb.v = (r - input.usa) * 100
          /\ input.price > 0
               => /\ r * input.price <= 10000000
                  /\ (r + 1) * input.price > 10000000

\* C12 witness: p = 30.00 and u = 4.00 give 33.33 % and 2933.00 bp.
C12_Witness ==
  /\ RiesgoReading
  /\ input.price = 3000
  /\ input.usa = 400
  /\ output.res.val.rendimiento_arg = Some(3333)
  /\ output.res.val.riesgo_pb = Some(293300)

\* The first IOL URL gave no price: requests.get raised (transport fault or
\* timeout), the status was not 200, or the page did not show the symbol.
FirstUrlGaveNothing ==
  /\ input.fn = "iol"
  /\ \/ input.pages[1].exc
     \/ input.pages[1].status # 200
     \/ input.pages[1].raw = <<>>

\* What fetch_price_iol_html finds on the page of the second URL alone.
OnSecondUrl == fetch_price_iol_html(<<input.pages[2]>>).res

\* C13: whatever way the first IOL URL fails, the second URL is still
\* requested and a value found on it is what fetch_price_iol_html returns.
C13_SecondUrlStillTried ==
  (output.done /\ FirstUrlGaveNothing /\ OnSecondUrl.val.some)
    => output.res = OnSecondUrl

\* C14: under the manual preference the price of the result returned by
\* obtener_riesgo_actual is the one the sidebar supplies at that call: the
\* manual price, or what the custom location gives.
C14_ManualPriceIsCurrent ==
  (last.ran /\ ~last.raised /\ last.side.fuente = MANUAL)
    => IF last.side.entrada = ""
       THEN last.result.precio_arg = last.side.precio_manual
       ELSE last.result.precio_arg = ReturnedBy("rava_api", last.side.entrada)

(***************************************************************************)
(* The two cache layers over a longer time, under the preferences that     *)
(* start with a 90 s adapter and with a 120 s adapter.                     *)
(***************************************************************************)
AgeSidebar ==
  {side \in Sidebar : side.fuente \in {"Rava API", "Rava (HTML)"}}

RerunAge(side) == runs < MaxAgeRuns /\ Execute(side)

TickAge == Elapse(MaxAgeTime)

NextAge == (\E side \in AgeSidebar : RerunAge(side)) \/ TickAge

SpecAge == Init /\ [][NextAge]_vars

\* The latest call returned a reading (a spread was computed).
ReadingReturned == last.ran /\ ~last.raised /\ last.result.riesgo_pb.some

LastBasis == basis[RiesgoKey(SYMBOL, last.side.fuente)]

\* C15: the US yield and the adapter price under any reading returned by
\* obtener_riesgo_actual come from an upstream fetch made no more than 60 s
\* plus the TTL of that adapter before the call.
C15_ReadingAgeBounded ==
  ReadingReturned
    => /\ LastBasis.usa_at >= 0
       /\ last.t - LastBasis.usa_at <= TTL_RIESGO + TTL_UST
       /\ \A k \in LastBasis.price_keys :
            /\ LastBasis.price_at >= 0
            /\ last.t - LastBasis.price_at <= TTL_RIESGO + KeyTTL(k)

\* C15 witness: a reading answered by the aggregate cache whose price was
\* fetched at least one adapter TTL before the call, older than the adapter
\* cache alone would serve.
C15_Witness ==
  /\ ReadingReturned
  /\ last.hit
  /\ \E k \in LastBasis.price_keys :
       /\ LastBasis.price_at >= 0
       /\ last.t - LastBasis.price_at >= KeyTTL(k)

====
